---------------------------- MODULE Spec2Model ----------------------------
(***************************************************************************)
(* A model of the remplate template scanner                                *)
(* (remplate-macros/src/template_parsing.rs): the string-literal scanner   *)
(* parse_str_literal, the block matcher parse_code_block and the template  *)
(* scanner parse_template.                                                 *)
(*                                                                         *)
(* A document is a sequence of characters.  Rust iterates a &str by        *)
(* characters (chars().enumerate()) and slices it by byte offsets, so the  *)
(* model keeps the two apart: every character has a width in bytes, and a  *)
(* slice at a byte offset that is not a character boundary panics.         *)
(* Positions are 0-based as in the source; the character with index i of a *)
(* sequence s is s[i + 1].                                                 *)
(***************************************************************************)
EXTENDS Integers, Sequences, FiniteSets, TLC

VARIABLES
    input,                       \* the &str handed to the function under scan
    pc,                          \* which loop is running, or "done"
    iter,                        \* characters the enumerate() iterator has yielded
    open_delimiters,             \* parse_code_block: nested openers seen
    parse_state,                 \* parse_str_literal: Option<StringMatchState>
    code_block_fragment_ranges,  \* ParseResult.code_block_fragment_ranges
    template_fragment_ranges,    \* ParseResult.template_fragment_ranges
    outcome,                     \* the function's return value once pc = "done"
    overflow_checks,             \* whether the build panics on integer overflow
    TEMPLATE_PATH,               \* lib.rs: the process-wide OnceLock<PathBuf>
    item,                        \* derive_remplate: the derive input of the run
    erroneous_character_position, \* TemplateError.0: the range of the erroneous text
    rust_string,                 \* src/lib.rs ParseState.rust_string
    last_index,                  \* src/lib.rs ParseState.last_index
    open_nested_code_blocks,     \* src/lib.rs ParseState.open_nested_code_blocks
    code_blocks,                 \* src/lib.rs ParseState.code_blocks
    escaped_braces               \* src/lib.rs ParseState.escaped_braces

vars == <<input, pc, iter, open_delimiters, parse_state,
          code_block_fragment_ranges, template_fragment_ranges, outcome,
          overflow_checks, TEMPLATE_PATH, item, erroneous_character_position,
          rust_string, last_index, open_nested_code_blocks, code_blocks,
          escaped_braces>>

---------------------------------------------------------------------------
(* Characters.                                                             *)

Open == "{"
Close == "}"
Quote == "\""
Marker == "r"
Fence == "#"
Other == "x"
\* A character that UTF-8 encodes in two bytes (such as U+00E9).
Wide == "U+00E9"

Ascii == {Open, Close, Quote, Marker, Fence, Other}
Alphabet == Ascii \cup {Wide}

\* char::len_utf8
Width(c) == IF c = Wide THEN 2 ELSE 1

\* The UTF-8 bytes of one character.
BytesOfChar(c) == IF c = Wide THEN <<"C3", "A9">> ELSE <<c>>

RECURSIVE Bytes(_)
\* The bytes of a &str.
Bytes(s) == IF s = <<>> THEN <<>> ELSE BytesOfChar(Head(s)) \o Bytes(Tail(s))

\* str::len: the length in bytes.
ByteLen(s) == Len(Bytes(s))

RECURSIVE ByteOffset(_, _)
\* The byte offset at which the character with index i starts.
ByteOffset(s, i) == IF i = 0 THEN 0 ELSE ByteOffset(s, i - 1) + Width(s[i])

\* str::is_char_boundary
IsCharBoundary(s, b) == \E i \in 0..Len(s) : ByteOffset(s, i) = b

\* The character index whose byte offset is b (b a character boundary).
CharAt(s, b) == CHOOSE i \in 0..Len(s) : ByteOffset(s, i) = b

\* &s[b..]: the caller checks IsCharBoundary(s, b); Rust panics otherwise.
SliceFrom(s, b) == SubSeq(s, CharAt(s, b) + 1, Len(s))

\* core::ops::Range<usize>
Range(a, b) == [start |-> a, end |-> b]

---------------------------------------------------------------------------
(* parse_str_literal                                                       *)

NoMatch == [position |-> 0, length |-> 0]
StringMatch(p, l) == [position |-> p, length |-> l]

\* Option<StringMatchState>: None, MatchingFirst(first) or
\* MatchingSecond {first, second}, second an Option<StringMatch>.
StateNone == [tag |-> "None", first |-> NoMatch, has_second |-> FALSE, second |-> NoMatch]
MatchingFirst(f) == [tag |-> "MatchingFirst", first |-> f, has_second |-> FALSE, second |-> NoMatch]
MatchingSecondNone(f) == [tag |-> "MatchingSecond", first |-> f, has_second |-> FALSE, second |-> NoMatch]
MatchingSecondSome(f, s) == [tag |-> "MatchingSecond", first |-> f, has_second |-> TRUE, second |-> s]

Stay(st) == [state |-> st, brk |-> FALSE]
Break(st) == [state |-> st, brk |-> TRUE]

\* The arm for the marker character.
StrArmMarker(st, index) ==
    IF st.tag \in {"None", "MatchingFirst"}
    THEN Stay(MatchingFirst(StringMatch(index, 0)))
    ELSE Stay(st)

\* The arm for the fence character.
StrArmFence(st, index) ==
    CASE st.tag = "MatchingFirst" ->
           Stay(MatchingFirst(StringMatch(st.first.position, st.first.length + 1)))
      [] st.tag = "MatchingSecond" /\ st.has_second
            /\ st.first.length = st.second.length + 1 ->
           Break(MatchingSecondSome(st.first,
                     StringMatch(st.second.position, st.second.length + 1)))
      [] st.tag = "MatchingSecond" /\ st.has_second
            /\ st.first.length # st.second.length + 1 ->
           Stay(MatchingSecondSome(st.first,
                     StringMatch(st.second.position, st.second.length + 1)))
      [] OTHER -> Stay(st)

\* The quote arm without the break of lines 211-224: the scan goes on after
\* the closing quote of a plain literal.
StrArmQuoteNoBreak(st, index) ==
    CASE st.tag = "MatchingFirst" ->
           Stay(MatchingSecondNone(StringMatch(st.first.position, st.first.length)))
      [] st.tag = "MatchingSecond" ->
           Stay(MatchingSecondSome(st.first, StringMatch(index, 0)))
      [] OTHER ->
           Stay(MatchingSecondNone(StringMatch(index, 0)))

\* The arm for the quote character.
StrArmQuote(st, index) ==
    CASE st.tag = "MatchingFirst" ->
           Stay(MatchingSecondNone(StringMatch(st.first.position, st.first.length)))
      [] st.tag = "MatchingSecond" /\ ~st.has_second /\ st.first.length = 0 ->
           Break(MatchingSecondSome(st.first, StringMatch(index, 0)))
      [] st.tag = "MatchingSecond" /\ ~(~st.has_second /\ st.first.length = 0) ->
           Stay(MatchingSecondSome(st.first, StringMatch(index, 0)))
      [] OTHER ->
           Stay(MatchingSecondNone(StringMatch(index, 0)))

\* The arm for every other character.
StrArmOther(st, index) ==
    CASE st.tag = "MatchingFirst" -> Break(st)
      [] st.tag = "MatchingSecond" /\ st.has_second -> Stay(MatchingSecondNone(st.first))
      [] st.tag = "None" -> Break(st)
      [] OTHER -> Stay(st)

\* One iteration of the for loop: the match on the character.
StrArm(st, index, character) ==
    CASE character = Marker -> StrArmMarker(st, index)
      [] character = Fence -> StrArmFence(st, index)
      [] character = Quote -> StrArmQuote(st, index)
      [] OTHER -> StrArmOther(st, index)

StrOk(a, b) == [kind |-> "Ok", start |-> a, end |-> b]
NoStrFound == [kind |-> "NoStrFound", start |-> 0, end |-> 0]
StrHasNoEnd(a) == [kind |-> "StrHasNoEnd", start |-> a, end |-> 0]

\* The match on parse_state after the loop.
StrFinish(st) ==
    CASE st.tag = "MatchingFirst" -> NoStrFound
      [] st.tag = "MatchingSecond" /\ ~st.has_second -> StrHasNoEnd(st.first.position)
      [] st.tag = "MatchingSecond" /\ st.has_second
            /\ st.second.length # st.first.length -> StrHasNoEnd(st.first.position)
      [] st.tag = "MatchingSecond" /\ st.has_second
            /\ st.second.length = st.first.length ->
           StrOk(st.first.position, st.second.position + st.second.length)
      [] OTHER -> NoStrFound

RECURSIVE StrLoop(_, _, _)
\* The for loop from the character with index i on.
StrLoop(s, i, st) ==
    IF i >= Len(s) THEN st
    ELSE LET a == StrArm(st, i, s[i + 1])
         IN  IF a.brk THEN a.state ELSE StrLoop(s, i + 1, a.state)

parse_str_literal(s) == StrFinish(StrLoop(s, 0, StateNone))

RECURSIVE StrPassed(_, _, _)
\* The number of characters the for loop moves past from index i on: its
\* iterations that do not break.
StrPassed(s, i, st) ==
    IF i >= Len(s) THEN 0
    ELSE LET a == StrArm(st, i, s[i + 1])
         IN  IF a.brk THEN 0 ELSE 1 + StrPassed(s, i + 1, a.state)

---------------------------------------------------------------------------
(* parse_code_block                                                        *)

\* Result<usize, CodeBlockParseError>, or the panic of a slice that does not
\* start on a character boundary.
BlockOk(i) == [kind |-> "Ok", value |-> i]
BlockStrHasNoEnd(a) == [kind |-> "StrHasNoEnd", value |-> a]
BlockHasNoEnd == [kind |-> "BlockHasNoEnd", value |-> 0]
Escaped == [kind |-> "Escaped", value |-> 0]
Panic == [kind |-> "Panic", value |-> 0]

\* What one iteration of the while loop does: it returns (ret), or it goes on
\* with the iterator at next and the counter at open.
Return(r) == [returns |-> TRUE, ret |-> r, next |-> 0, open |-> 0]
GoOn(n, o) == [returns |-> FALSE, ret |-> Panic, next |-> n, open |-> o]

\* The arm for the opening delimiter.
BlockArmOpen(index, open) ==
    IF index = 1 THEN Return(Escaped)
    ELSE IF index > 0 THEN GoOn(index + 1, open + 1)
    ELSE GoOn(index + 1, open)

\* The string arm with iterator.nth(str_range.end) for
\* iterator.nth(str_range.end - 1): one character too many is skipped.
BlockArmStrSkipsOneMore(s, index, open) ==
    IF ~IsCharBoundary(s, index) THEN Return(Panic)
    ELSE LET lit == parse_str_literal(SliceFrom(s, index))
         IN  CASE lit.kind = "Ok" -> GoOn(index + 2 + lit.end, open)
               [] lit.kind = "NoStrFound" -> GoOn(index + 1, open)
               [] OTHER -> Return(BlockStrHasNoEnd(lit.start + index))

\* The arm for a candidate string-literal start: &input[index..] takes the
\* character index as a byte offset; iterator.nth(str_range.end - 1) consumes
\* str_range.end further characters.
BlockArmStr(s, index, open) ==
    IF ~IsCharBoundary(s, index) THEN Return(Panic)
    ELSE LET lit == parse_str_literal(SliceFrom(s, index))
         IN  CASE lit.kind = "Ok" -> GoOn(index + 1 + lit.end, open)
               [] lit.kind = "NoStrFound" -> GoOn(index + 1, open)
               [] OTHER -> Return(BlockStrHasNoEnd(lit.start + index))

\* The arm for the closing delimiter.
BlockArmClose(index, open) ==
    IF open = 0 THEN Return(BlockOk(index))
    ELSE GoOn(index + 1, open - 1)

\* One iteration of the while loop: the match on the character.
BlockArm(s, index, open) ==
    LET character == s[index + 1]
    IN  CASE character = Open -> BlockArmOpen(index, open)
          [] character \in {Marker, Quote} -> BlockArmStr(s, index, open)
          [] character = Close -> BlockArmClose(index, open)
          [] OTHER -> GoOn(index + 1, open)

RECURSIVE BlockLoop(_, _, _)
\* The while loop from the character with index i on.
BlockLoop(s, i, open) ==
    IF i >= Len(s) THEN BlockHasNoEnd
    ELSE LET a == BlockArm(s, i, open)
         IN  IF a.returns THEN a.ret ELSE BlockLoop(s, a.next, a.open)

parse_code_block(s) == BlockLoop(s, 0, 0)

---------------------------------------------------------------------------
(* parse_template                                                          *)

\* Result<ParseResult, TemplateParseError>, or a panic.
TemplateOk == [kind |-> "Ok", position |-> 0]
CodeBlockHasNoEnd(p) == [kind |-> "CodeBlockHasNoEnd", position |-> p]
TemplateStrHasNoEnd(p) == [kind |-> "StrHasNoEnd", position |-> p]
TemplatePanic == [kind |-> "Panic", position |-> 0]
Running == [kind |-> "Running", position |-> 0]

Last(v) == v[Len(v)]

\* The template fragment pushed before a block that opens at index.
FragmentBefore(blocks, index) ==
    IF blocks # <<>> THEN Range(Last(blocks).end + 1, index) ELSE Range(0, index)

\* The range pushed for a block that opens at index and ends at block_end.
BlockRange(index, block_end) == Range(index + 1, block_end + index)

\* The iterator after iterator.nth(block_end - 1), the character at index
\* being the last one yielded.  block_end - 1 is a usize subtraction: for
\* block_end = 0 it wraps where overflow is not checked, and nth then
\* exhausts the iterator.
AfterNth(s, index, block_end) ==
    IF block_end = 0 THEN Len(s)
    ELSE IF index + 1 + block_end > Len(s) THEN Len(s)
    ELSE index + 1 + block_end

\* What one iteration of parse_template's while loop does.
TemplateGoOn(n, blocks, frags) ==
    [outcome |-> Running, next |-> n, blocks |-> blocks, frags |-> frags]
TemplateReturn(r, blocks, frags) ==
    [outcome |-> r, next |-> 0, blocks |-> blocks, frags |-> frags]

\* The Ok(block_end) arm: push the fragment before the block and the block,
\* then move the iterator past the block.
TemplateArmOk(s, index, block_end, blocks, frags, checked) ==
    IF block_end = 0 /\ checked
    THEN TemplateReturn(TemplatePanic,
                        Append(blocks, BlockRange(index, block_end)),
                        Append(frags, FragmentBefore(blocks, index)))
    ELSE TemplateGoOn(AfterNth(s, index, block_end),
                      Append(blocks, BlockRange(index, block_end)),
                      Append(frags, FragmentBefore(blocks, index)))

\* The arm for the opening delimiter: parse_code_block(&input[index..]), the
\* character index taken as a byte offset.
TemplateArmOpen(s, index, blocks, frags, checked) ==
    IF ~IsCharBoundary(s, index) THEN TemplateReturn(TemplatePanic, blocks, frags)
    ELSE LET r == parse_code_block(SliceFrom(s, index))
         IN  CASE r.kind = "Ok" ->
                    TemplateArmOk(s, index, r.value, blocks, frags, checked)
               [] r.kind = "StrHasNoEnd" ->
                    TemplateReturn(TemplateStrHasNoEnd(r.value + index), blocks, frags)
               [] r.kind = "BlockHasNoEnd" ->
                    TemplateReturn(CodeBlockHasNoEnd(index), blocks, frags)
               [] r.kind = "Escaped" -> TemplateGoOn(index + 1, blocks, frags)
               [] OTHER -> TemplateReturn(TemplatePanic, blocks, frags)

\* The code after the loop without the push of lines 79-81: the text after
\* the last block is no fragment.
TemplateEndNoFragment(s, blocks, frags) ==
    IF blocks = <<>> THEN TemplateReturn(TemplatePanic, blocks, frags)
    ELSE TemplateReturn(TemplateOk, blocks, frags)

\* The code after the loop: last().unwrap() panics on an empty vector.
TemplateEnd(s, blocks, frags) ==
    IF blocks = <<>> THEN TemplateReturn(TemplatePanic, blocks, frags)
    ELSE TemplateReturn(TemplateOk, blocks,
                        Append(frags, Range(Last(blocks).end + 1, ByteLen(s))))

---------------------------------------------------------------------------
(* The inputs: every concatenation of at most MaxPieces pieces, a piece     *)
(* being one character, one of the delimiters of a raw literal or a plain  *)
(* literal, so that raw literals with a body and adjacent literals fit the *)
(* bound.                                                                  *)

MaxPieces == 4

Chunks == {<<Marker, Fence, Quote>>, <<Quote, Fence>>, <<Quote, Marker, Fence>>,
           <<Quote, Quote>>, <<Quote, Other, Quote>>}
Pieces == {<<c>> : c \in Alphabet} \cup Chunks

RECURSIVE Concats(_, _)
Concats(P, n) ==
    IF n = 0 THEN {<<>>}
    ELSE LET S == Concats(P, n - 1) IN S \cup {s \o p : s \in S, p \in P}

Documents == Concats(Pieces, MaxPieces)

\* The documents of one-byte characters.
AsciiPieces == {<<c>> : c \in Ascii} \cup Chunks
AsciiDocuments == Concats(AsciiPieces, MaxPieces)

---------------------------------------------------------------------------
(* The state machine: one action per loop iteration.                       *)

\* The derive input of a run: the template path of the remplate attribute,
\* whether it canonicalizes and whether the file can be read.
Item(path, canonicalizes, readable) ==
    [path |-> path, canonicalizes |-> canonicalizes, readable |-> readable]
NoItem == Item("", FALSE, FALSE)

\* BlockMatchState
Matched(index) == [tag |-> "Matched", start |-> 0, current |-> index]
Matching(start, current) == [tag |-> "Matching", start |-> start, current |-> current]

\* ParseState::default() of the earlier scanner.
ParseStateDefault ==
    /\ rust_string = StateNone
    /\ last_index = Matched(0)
    /\ open_nested_code_blocks = 0
    /\ code_blocks = <<>>
    /\ escaped_braces = <<>>

Idle ==
    /\ ParseStateDefault
    /\ item = NoItem
    /\ erroneous_character_position = Range(0, 0)
    /\ iter = 0
    /\ open_delimiters = 0
    /\ parse_state = StateNone
    /\ code_block_fragment_ranges = <<>>
    /\ template_fragment_ranges = <<>>
    /\ outcome = Running

\* parse_template(input) is called.
Init ==
    /\ input \in Documents
    /\ overflow_checks \in BOOLEAN
    /\ pc = "parse_template"
    /\ TEMPLATE_PATH = <<>>
    /\ Idle

\* An iteration of parse_template on a character other than the opener.
TemplateOther ==
    /\ pc = "parse_template"
    /\ iter < Len(input)
    /\ input[iter + 1] # Open
    /\ iter' = iter + 1
    /\ UNCHANGED <<rust_string, last_index, open_nested_code_blocks, code_blocks,
                   escaped_braces,
                   TEMPLATE_PATH, item, erroneous_character_position,
                   input, pc, open_delimiters, parse_state,
                   code_block_fragment_ranges, template_fragment_ranges,
                   outcome, overflow_checks>>

\* An iteration of parse_template on the opener.
TemplateOpen ==
    /\ pc = "parse_template"
    /\ iter < Len(input)
    /\ input[iter + 1] = Open
    /\ LET a == TemplateArmOpen(input, iter, code_block_fragment_ranges,
                                template_fragment_ranges, overflow_checks)
       IN  /\ code_block_fragment_ranges' = a.blocks
           /\ template_fragment_ranges' = a.frags
           /\ outcome' = a.outcome
           /\ iter' = IF a.outcome = Running THEN a.next ELSE iter
           /\ pc' = IF a.outcome = Running THEN pc ELSE "done"
    /\ UNCHANGED <<rust_string, last_index, open_nested_code_blocks, code_blocks,
                   escaped_braces,
                   TEMPLATE_PATH, item, erroneous_character_position,
                   input, open_delimiters, parse_state, overflow_checks>>

\* The iterator is exhausted: the last fragment is pushed.
TemplateFinish ==
    /\ pc = "parse_template"
    /\ iter >= Len(input)
    /\ LET a == TemplateEnd(input, code_block_fragment_ranges,
                            template_fragment_ranges)
       IN  /\ code_block_fragment_ranges' = a.blocks
           /\ template_fragment_ranges' = a.frags
           /\ outcome' = a.outcome
    /\ pc' = "done"
    /\ UNCHANGED <<rust_string, last_index, open_nested_code_blocks, code_blocks,
                   escaped_braces,
                   TEMPLATE_PATH, item, erroneous_character_position,
                   input, iter, open_delimiters, parse_state, overflow_checks>>

Next == TemplateOther \/ TemplateOpen \/ TemplateFinish

Spec == Init /\ [][Next]_vars

\* parse_template(input) is called on a document of one-byte characters.
InitAscii ==
    /\ input \in AsciiDocuments
    /\ overflow_checks = TRUE
    /\ pc = "parse_template"
    /\ TEMPLATE_PATH = <<>>
    /\ Idle

SpecAscii == InitAscii /\ [][Next]_vars

---------------------------------------------------------------------------
(* parse_code_block on its own: the input starts with the opener that      *)
(* parse_template found.                                                   *)

AsciiBlockInputs == {<<Open>> \o body : body \in AsciiDocuments}

\* parse_code_block(input) is called on an input of one-byte characters.
InitBlockAscii ==
    /\ input \in AsciiBlockInputs
    /\ overflow_checks = TRUE
    /\ pc = "parse_code_block"
    /\ TEMPLATE_PATH = <<>>
    /\ Idle

\* An iteration of parse_code_block's while loop.
BlockStep ==
    /\ pc = "parse_code_block"
    /\ iter < Len(input)
    /\ LET a == BlockArm(input, iter, open_delimiters)
       IN  /\ outcome' = IF a.returns THEN a.ret ELSE outcome
           /\ pc' = IF a.returns THEN "done" ELSE pc
           /\ iter' = IF a.returns THEN iter ELSE a.next
           /\ open_delimiters' = IF a.returns THEN open_delimiters ELSE a.open
    /\ UNCHANGED <<rust_string, last_index, open_nested_code_blocks, code_blocks,
                   escaped_braces,
                   TEMPLATE_PATH, item, erroneous_character_position,
                   input, parse_state, code_block_fragment_ranges,
                   template_fragment_ranges, overflow_checks>>

\* The iterator is exhausted: Err(BlockHasNoEnd).
BlockExhausted ==
    /\ pc = "parse_code_block"
    /\ iter >= Len(input)
    /\ outcome' = BlockHasNoEnd
    /\ pc' = "done"
    /\ UNCHANGED <<rust_string, last_index, open_nested_code_blocks, code_blocks,
                   escaped_braces,
                   TEMPLATE_PATH, item, erroneous_character_position,
                   input, iter, open_delimiters, parse_state,
                   code_block_fragment_ranges, template_fragment_ranges,
                   overflow_checks>>

NextBlock == BlockStep \/ BlockExhausted

SpecBlockAscii == InitBlockAscii /\ [][NextBlock]_vars

---------------------------------------------------------------------------
(* parse_str_literal on its own.                                           *)

InitStr ==
    /\ input \in Documents
    /\ overflow_checks = TRUE
    /\ pc = "parse_str_literal"
    /\ TEMPLATE_PATH = <<>>
    /\ Idle

\* An iteration of parse_str_literal's for loop.
StrStep ==
    /\ pc = "parse_str_literal"
    /\ iter < Len(input)
    /\ LET a == StrArm(parse_state, iter, input[iter + 1])
       IN  /\ parse_state' = a.state
           /\ pc' = IF a.brk THEN "str_match" ELSE pc
    /\ iter' = iter + 1
    /\ UNCHANGED <<rust_string, last_index, open_nested_code_blocks, code_blocks,
                   escaped_braces,
                   TEMPLATE_PATH, item, erroneous_character_position,
                   input, open_delimiters, code_block_fragment_ranges,
                   template_fragment_ranges, outcome, overflow_checks>>

\* The loop is left, by break or at the end of the input: the final match.
StrMatch ==
    /\ \/ pc = "str_match"
       \/ pc = "parse_str_literal" /\ iter >= Len(input)
    /\ outcome' = StrFinish(parse_state)
    /\ pc' = "done"
    /\ UNCHANGED <<rust_string, last_index, open_nested_code_blocks, code_blocks,
                   escaped_braces,
                   TEMPLATE_PATH, item, erroneous_character_position,
                   input, iter, open_delimiters, parse_state,
                   code_block_fragment_ranges, template_fragment_ranges,
                   overflow_checks>>

NextStr == StrStep \/ StrMatch

SpecStr == InitStr /\ [][NextStr]_vars

---------------------------------------------------------------------------
(* The grammar the claims speak of (spec 4.1, 4.2): a plain literal runs   *)
(* from a quote to the next quote; a raw literal is the marker, n fence    *)
(* characters and a quote, and runs to the first quote that n fence        *)
(* characters follow directly.  Indices are character indices.             *)

\* The character with index i, or "" past the end.
At(s, i) == IF i >= 0 /\ i < Len(s) THEN s[i + 1] ELSE ""

RECURSIVE FencesFrom(_, _)
\* The number of consecutive fence characters from index i on.
FencesFrom(s, i) == IF At(s, i) = Fence THEN 1 + FencesFrom(s, i + 1) ELSE 0

\* The fence count of a literal that opens at p.
LitFences(s, p) == IF At(s, p) = Marker THEN FencesFrom(s, p + 1) ELSE 0

\* The index of the opening quote of a literal that opens at p.
LitQuote(s, p) == IF At(s, p) = Marker THEN p + 1 + LitFences(s, p) ELSE p

\* A literal opens at p.
LitOpens(s, p) == At(s, p) \in {Quote, Marker} /\ At(s, LitQuote(s, p)) = Quote

\* The quote at j closes a literal with n fence characters.
ClosesAt(s, j, n) == At(s, j) = Quote /\ \A m \in 1..n : At(s, j + m) = Fence

\* The closing quotes of the literal that opens at p.
LitCloses(s, p) ==
    {j \in (LitQuote(s, p) + 1)..(Len(s) - 1) : ClosesAt(s, j, LitFences(s, p))}

Min(S) == CHOOSE x \in S : \A y \in S : x <= y

\* The index of the last character of the (terminated) literal that opens at p.
LitEnd(s, p) == Min(LitCloses(s, p)) + LitFences(s, p)

\* What a block's interior comes to: its matching closing delimiter at index
\* at, no closing delimiter, or a literal opening at index at that never
\* closes.
Closed(i) == [kind |-> "Closed", at |-> i]
NoClose == [kind |-> "NoClose", at |-> 0]
Unterminated(i) == [kind |-> "Unterminated", at |-> i]

RECURSIVE RefClose(_, _, _)
\* The matching closing delimiter of a block, scanning from index i at
\* nesting depth d.
RefClose(s, i, d) ==
    IF i >= Len(s) THEN NoClose
    ELSE CASE At(s, i) = Open -> RefClose(s, i + 1, d + 1)
           [] At(s, i) = Close ->
                IF d = 0 THEN Closed(i) ELSE RefClose(s, i + 1, d - 1)
           [] LitOpens(s, i) ->
                IF LitCloses(s, i) = {} THEN Unterminated(i)
                ELSE RefClose(s, LitEnd(s, i) + 1, d)
           [] OTHER -> RefClose(s, i + 1, d)

RECURSIVE RefContents(_, _, _)
\* The indices strictly inside the terminated literals of a block.
RefContents(s, i, d) ==
    IF i >= Len(s) THEN {}
    ELSE CASE At(s, i) = Open -> RefContents(s, i + 1, d + 1)
           [] At(s, i) = Close ->
                IF d = 0 THEN {} ELSE RefContents(s, i + 1, d - 1)
           [] LitOpens(s, i) ->
                IF LitCloses(s, i) = {} THEN {}
                ELSE ((LitQuote(s, i) + 1)..(Min(LitCloses(s, i)) - 1))
                         \cup RefContents(s, LitEnd(s, i) + 1, d)
           [] OTHER -> RefContents(s, i + 1, d)

\* The index of the first opening delimiter of a document that has one.
FirstOpen(s) == Min({i \in 0..(Len(s) - 1) : At(s, i) = Open})
HasOpen(s) == \E i \in 0..(Len(s) - 1) : At(s, i) = Open

\* The document from its first opening delimiter on.
FromFirstOpen(s) == SubSeq(s, FirstOpen(s) + 1, Len(s))

\* The bytes of the document that a range denotes (&template[range]), or
\* <<"panic">> where the range is not a slice of the document.
Text(s, r) ==
    IF r.start <= r.end /\ r.end <= ByteLen(s)
    THEN SubSeq(Bytes(s), r.start + 1, r.end)
    ELSE <<"panic">>

RECURSIVE Reassemble(_, _, _)
\* text(t0) { text(b0) } text(t1) ... text(tn)
Reassemble(s, frags, blocks) ==
    IF blocks = <<>> THEN Text(s, Head(frags))
    ELSE Text(s, Head(frags)) \o <<Open>> \o Text(s, Head(blocks)) \o <<Close>>
             \o Reassemble(s, Tail(frags), Tail(blocks))

\* t0, b0, t1, ..., tn: the returned ranges in document order.
Interleaved(frags, blocks) ==
    [i \in 1..(Len(frags) + Len(blocks)) |->
        IF i % 2 = 1 THEN frags[(i + 1) \div 2] ELSE blocks[i \div 2]]

\* s with the character at index k replaced by c.
Replace(s, k, c) == [s EXCEPT ![k + 1] = c]

---------------------------------------------------------------------------
(* The classifier of lib.rs: TemplateExpression::try_from and              *)
(* Formattable::from, on the bytes of a block.                             *)

Semi == ";"
Colon == ":"
Space == " "
Newline == "\n"

\* The byte offsets at which c occurs in b.
Positions(b, c) == {i \in 0..(Len(b) - 1) : b[i + 1] = c}

Max(S) == CHOOSE x \in S : \A y \in S : x >= y

\* b.trim() == "" (also b.trim().is_empty()).
TrimIsEmpty(b) == \A i \in 1..Len(b) : b[i] \in {Space, Newline}

\* struct Formattable: expression_range and formatting_range, an Option.
NoRange == Range(0, 0)
Formattable(e, has, f) ==
    [expression_range |-> e, has_formatting |-> has, formatting_range |-> f]
NoFormattable == Formattable(NoRange, FALSE, NoRange)

\* Formattable::from with the format spec starting after the separator.
FormattableFromDropsSeparator(template, expression_range) ==
    LET format_expression == Text(template, expression_range)
        found == Positions(format_expression, Colon)
    IN  IF found # {}
        THEN LET position == Min(found)
             IN  Formattable(
                     Range(expression_range.start, expression_range.start + position),
                     TRUE,
                     Range(expression_range.start + position + 1, expression_range.end))
        ELSE Formattable(expression_range, FALSE, NoRange)

\* Formattable::from((template, expression_range)).
FormattableFrom(template, expression_range) ==
    LET format_expression == Text(template, expression_range)
        found == Positions(format_expression, Colon)
    IN  IF found # {}
        THEN LET position == Min(found)
             IN  Formattable(
                     Range(expression_range.start, expression_range.start + position),
                     TRUE,
                     Range(expression_range.start + position, expression_range.end))
        ELSE Formattable(expression_range, FALSE, NoRange)

\* Result<TemplateExpression, ()>.
CodeBlock(r) ==
    [kind |-> "CodeBlock", code_block_range |-> r, formattable |-> NoFormattable]
CodeBlockWithFormattable(r, f) ==
    [kind |-> "CodeBlockWithFormattable", code_block_range |-> r, formattable |-> f]
ExpressionFormattable(f) ==
    [kind |-> "Formattable", code_block_range |-> NoRange, formattable |-> f]
ErrEmpty == [kind |-> "Err", code_block_range |-> NoRange, formattable |-> NoFormattable]

\* try_from without the `"" => Err(())` arm: a blank block is a value.
try_fromNoEmptyCheck(template, code_block_range) ==
    LET code_block == Text(template, code_block_range)
        found == Positions(code_block, Semi)
    IN  IF found # {}
        THEN LET position == Max(found)
                 statement == Range(code_block_range.start,
                                    code_block_range.start + position + 1)
             IN  IF TrimIsEmpty(SubSeq(code_block, position + 2, Len(code_block)))
                 THEN CodeBlock(statement)
                 ELSE CodeBlockWithFormattable(
                          statement,
                          FormattableFrom(template,
                              Range(code_block_range.start + position + 1,
                                    code_block_range.end)))
        ELSE ExpressionFormattable(FormattableFrom(template, code_block_range))

\* try_from with a statement range that stops before the separator: the `;`
\* is in neither part.
try_fromDropsSeparator(template, code_block_range) ==
    LET code_block == Text(template, code_block_range)
        found == Positions(code_block, Semi)
    IN  IF found # {}
        THEN LET position == Max(found)
                 statement == Range(code_block_range.start,
                                    code_block_range.start + position)
             IN  IF TrimIsEmpty(SubSeq(code_block, position + 2, Len(code_block)))
                 THEN CodeBlock(statement)
                 ELSE CodeBlockWithFormattable(
                          statement,
                          FormattableFrom(template,
                              Range(code_block_range.start + position + 1,
                                    code_block_range.end)))
        ELSE IF TrimIsEmpty(code_block) THEN ErrEmpty
             ELSE ExpressionFormattable(FormattableFrom(template, code_block_range))

\* try_from with find(';') for rfind(';'): the split at the first separator.
try_fromFirstSeparator(template, code_block_range) ==
    LET code_block == Text(template, code_block_range)
        found == Positions(code_block, Semi)
    IN  IF found # {}
        THEN LET position == Min(found)
                 statement == Range(code_block_range.start,
                                    code_block_range.start + position + 1)
             IN  IF TrimIsEmpty(SubSeq(code_block, position + 2, Len(code_block)))
                 THEN CodeBlock(statement)
                 ELSE CodeBlockWithFormattable(
                          statement,
                          FormattableFrom(template,
                              Range(code_block_range.start + position + 1,
                                    code_block_range.end)))
        ELSE IF TrimIsEmpty(code_block) THEN ErrEmpty
             ELSE ExpressionFormattable(FormattableFrom(template, code_block_range))

\* TemplateExpression::try_from((template, code_block_range)).
try_from(template, code_block_range) ==
    LET code_block == Text(template, code_block_range)
        found == Positions(code_block, Semi)
    IN  IF found # {}
        THEN LET position == Max(found)
                 statement == Range(code_block_range.start,
                                    code_block_range.start + position + 1)
             IN  IF TrimIsEmpty(SubSeq(code_block, position + 2, Len(code_block)))
                 THEN CodeBlock(statement)
                 ELSE CodeBlockWithFormattable(
                          statement,
                          FormattableFrom(template,
                              Range(code_block_range.start + position + 1,
                                    code_block_range.end)))
        ELSE IF TrimIsEmpty(code_block) THEN ErrEmpty
             ELSE ExpressionFormattable(FormattableFrom(template, code_block_range))

\* The bound on the interior of a classified block, in characters.
MaxInterior == 5

\* The interior of the block of the spec's example.
LetExample ==
    <<"l", "e", "t", " ", "x", " ", "=", " ", "1", "5", ";", " ", "x", ":", "?">>

Interiors ==
    Concats({<<c>> : c \in {Semi, Colon, Space, Other, Quote}}, MaxInterior)
        \cup {LetExample}

\* try_from is called with a template that holds one block and that block's
\* range.
InitClassify ==
    /\ input \in {<<Open>> \o b \o <<Close>> : b \in Interiors}
    /\ code_block_fragment_ranges = <<Range(1, Len(input) - 1)>>
    /\ pc = "try_from"
    /\ ParseStateDefault
    /\ TEMPLATE_PATH = <<"a.html">>
    /\ item = NoItem
    /\ erroneous_character_position = Range(0, 0)
    /\ iter = 0
    /\ open_delimiters = 0
    /\ parse_state = StateNone
    /\ template_fragment_ranges = <<>>
    /\ outcome = Running
    /\ overflow_checks = TRUE

\* TemplateExpression::try_from returns.
TryFrom ==
    /\ pc = "try_from"
    /\ outcome' = try_from(input, code_block_fragment_ranges[1])
    /\ pc' = "done"
    /\ UNCHANGED <<rust_string, last_index, open_nested_code_blocks, code_blocks,
                   escaped_braces,
                   TEMPLATE_PATH, item, erroneous_character_position,
                   input, iter, open_delimiters, parse_state,
                   code_block_fragment_ranges, template_fragment_ranges,
                   overflow_checks>>

\* The interior of the block that was classified.
Interior == SubSeq(input, 2, Len(input) - 1)

---------------------------------------------------------------------------
(* The diagnostic of error.rs: TemplateError::abortion_error.  A String is *)
(* the sequence of its bytes; slicing one off a character boundary panics. *)

TEMPLATE_POINTER_PADDING == 20

Backslash == "\\"

\* char::escape_debug, as format!("{:?}", &str) applies it to each character.
DebugChar(c) ==
    CASE c = Quote -> <<Backslash, Quote>>
      [] c = Newline -> <<Backslash, "n">>
      [] c = Backslash -> <<Backslash, Backslash>>
      [] OTHER -> BytesOfChar(c)

RECURSIVE DebugBody(_)
DebugBody(s) == IF s = <<>> THEN <<>> ELSE DebugChar(Head(s)) \o DebugBody(Tail(s))

\* format!("{:?}", s): the escaped text between two quotes.
DebugFormat(s) == <<Quote>> \o DebugBody(s) \o <<Quote>>

\* What a slice that panics stands for.
PanicText == <<"panic!">>

\* &template[a..b], a and b byte offsets: the characters of the slice.
TemplateSlice(template, a, b) ==
    IF a <= b /\ b <= ByteLen(template)
       /\ IsCharBoundary(template, a) /\ IsCharBoundary(template, b)
    THEN SubSeq(template, CharAt(template, a) + 1, CharAt(template, b))
    ELSE PanicText

\* The byte offset i of the String b is on a character boundary.
IsByteBoundary(b, i) == i = 0 \/ i = Len(b) \/ (i > 0 /\ i < Len(b) /\ b[i + 1] # "A9")

\* &b[from..to] of a String.
StringSlice(b, from, to) ==
    IF from <= to /\ to <= Len(b) /\ IsByteBoundary(b, from) /\ IsByteBoundary(b, to)
    THEN SubSeq(b, from + 1, to)
    ELSE PanicText

left_erroneous_slice(template, position) ==
    LET slice_start == IF position.start >= TEMPLATE_POINTER_PADDING
                       THEN position.start - TEMPLATE_POINTER_PADDING ELSE 0
        slice == TemplateSlice(template, slice_start, position.start)
    IN  IF slice = PanicText THEN PanicText ELSE DebugFormat(slice)

right_erroneous_slice(template, position) ==
    LET slice_end == IF position.end + TEMPLATE_POINTER_PADDING < ByteLen(template)
                     THEN position.end + TEMPLATE_POINTER_PADDING ELSE ByteLen(template)
        slice == TemplateSlice(template, position.end, slice_end)
    IN  IF slice = PanicText THEN PanicText ELSE DebugFormat(slice)

erroneous_character(template, position) ==
    LET slice == TemplateSlice(template, position.start, position.end)
    IN  IF slice = PanicText THEN PanicText
        ELSE StringSlice(DebugFormat(slice), 1, Len(DebugFormat(slice)) - 1)

\* TemplateParseError::into: the range of the TemplateError built from the
\* position of a parse error.
into(position) == Range(position, position + 1)

\* The compile_error!(..) abortion_error returns: the parts of its message.
\* pointer is the number of blanks before the caret.
Message(error_kind, position, path, left, character, right, pointer) ==
    [kind |-> "compile_error", error_kind |-> error_kind, position |-> position,
     path |-> path, final_left_slice |-> left, erroneous_character |-> character,
     final_right_slice |-> right, erroneous_slice |-> left \o character \o right,
     pointer |-> pointer]
MessagePanic ==
    Message("panic", Range(0, 0), "", <<>>, <<>>, <<>>, 0)
\* No compile_error!(..): the tokens are code.
NoMessage ==
    [kind |-> "none", error_kind |-> "none", position |-> Range(0, 0),
     path |-> "", final_left_slice |-> <<>>, erroneous_character |-> <<>>,
     final_right_slice |-> <<>>, erroneous_slice |-> <<>>, pointer |-> 0]

\* TemplateError(position, path, template, error_kind).abortion_error()
abortion_error(position, path, template, error_kind) ==
    LET left_slice == left_erroneous_slice(template, position)
        right_slice == right_erroneous_slice(template, position)
        character == erroneous_character(template, position)
    IN  IF PanicText \in {left_slice, right_slice, character} THEN MessagePanic
        ELSE LET allowed_erroneous_slice_length ==
                     IF Len(left_slice) - 1 < Len(right_slice) - 1
                     THEN Len(left_slice) - 1 ELSE Len(right_slice) - 1
                 final_left_slice ==
                     StringSlice(left_slice,
                                 Len(left_slice) - allowed_erroneous_slice_length,
                                 Len(left_slice) - 1)
                 final_right_slice ==
                     StringSlice(right_slice, 1, allowed_erroneous_slice_length)
             IN  IF PanicText \in {final_left_slice, final_right_slice}
                 THEN MessagePanic
                 ELSE Message(error_kind, position, path, final_left_slice,
                              character, final_right_slice,
                              allowed_erroneous_slice_length)

\* The bound on the text before and after the erroneous text, in characters
\* of filling (above TEMPLATE_POINTER_PADDING, so that the padding clamps).
MaxContext == 21

RECURSIVE Fill(_)
Fill(n) == IF n = 0 THEN <<>> ELSE <<Other>> \o Fill(n - 1)

\* A character at the edge of the context: none, one that is escaped, one of
\* two bytes.
Edges == {<<>>, <<Quote>>, <<Wide>>}
Lefts == {h \o Fill(n) \o t : h \in Edges, t \in Edges, n \in 0..MaxContext}
Rights == {h \o Fill(n) : h \in Edges, n \in 0..MaxContext}
Errs == {<<Open>>, <<Colon, Other>>}

\* abortion_error is called on an error whose range is a slice of the
\* template.
InitError ==
    /\ \E l \in Lefts, e \in Errs, r \in Rights :
           /\ input = l \o e \o r
           /\ erroneous_character_position = Range(ByteLen(l), ByteLen(l) + ByteLen(e))
    /\ pc = "abortion_error"
    /\ ParseStateDefault
    /\ TEMPLATE_PATH = <<"a.html">>
    /\ item = NoItem
    /\ iter = 0
    /\ open_delimiters = 0
    /\ parse_state = StateNone
    /\ code_block_fragment_ranges = <<>>
    /\ template_fragment_ranges = <<>>
    /\ outcome = Running
    /\ overflow_checks = TRUE

\* abortion_error returns.
AbortionError ==
    /\ pc = "abortion_error"
    /\ outcome' = abortion_error(erroneous_character_position, Head(TEMPLATE_PATH),
                                 input, "ClosingToken")
    /\ pc' = "done"
    /\ UNCHANGED <<rust_string, last_index, open_nested_code_blocks, code_blocks,
                   escaped_braces,
                   TEMPLATE_PATH, item, erroneous_character_position,
                   input, iter, open_delimiters, parse_state,
                   code_block_fragment_ranges, template_fragment_ranges,
                   overflow_checks>>

NextError == AbortionError

SpecError == InitError /\ [][NextError]_vars

---------------------------------------------------------------------------
(* Code generation: create_code of lib.rs, on documents of one-byte        *)
(* characters, on which every range parse_template returns is a slice of   *)
(* the document.  The generated token stream is the sequence of its        *)
(* statements, each with the text it is made from.                         *)

\* f.write_str(#text)?;
WriteStr(text) == [op |-> "write_str", text |-> text, format |-> <<>>, error |-> NoMessage]
\* the tokens of a statement block
Code(text) == [op |-> "code", text |-> text, format |-> <<>>, error |-> NoMessage]
\* f.write_fmt(format_args!(#format, #expression))?;
WriteFmt(format, expression) ==
    [op |-> "write_fmt", text |-> expression, format |-> format, error |-> NoMessage]
\* f.write_fmt(format_args!(#format, compile_error!(#error_message)))?;
WriteFmtError(format, message) ==
    [op |-> "write_fmt", text |-> <<"compile_error!">>, format |-> format,
     error |-> message]

\* TemplateError(formatting_range, TEMPLATE_PATH.get().expect(..), template,
\* MissingValue).abortion_error(); the expect panics while the path is unset.
MissingValue(template, formatting_range) ==
    IF TEMPLATE_PATH = <<>> THEN MessagePanic
    ELSE abortion_error(formatting_range, Head(TEMPLATE_PATH), template, "MissingValue")

\* Formattable::to_tokens without the test of expression_fragment.trim(): the
\* expression is passed on as code whatever it is.
FormattableToTokensPassesBlank(template, f) ==
    LET expression_fragment == Text(template, f.expression_range)
    IN  IF f.has_formatting
        THEN <<WriteFmt(<<"{">> \o Text(template, f.formatting_range) \o <<"}">>,
                        expression_fragment)>>
        ELSE <<WriteFmt(<<"{", "}">>, expression_fragment)>>

\* Formattable::to_tokens
FormattableToTokens(template, f) ==
    LET expression_fragment == Text(template, f.expression_range)
        format_part == <<"{">> \o Text(template, f.formatting_range) \o <<"}">>
    IN  IF f.has_formatting
        THEN IF TrimIsEmpty(expression_fragment)
             THEN <<WriteFmtError(format_part, MissingValue(template, f.formatting_range))>>
             ELSE <<WriteFmt(format_part, expression_fragment)>>
        ELSE <<WriteFmt(<<"{", "}">>, expression_fragment)>>

\* TemplateExpression::to_tokens
to_tokens(template, e) ==
    CASE e.kind = "CodeBlock" -> <<Code(Text(template, e.code_block_range))>>
      [] e.kind = "CodeBlockWithFormattable" ->
           <<Code(Text(template, e.code_block_range))>>
               \o FormattableToTokens(template, e.formattable)
      [] OTHER -> FormattableToTokens(template, e.formattable)

\* if let Ok(expression) = TemplateExpression::try_from(..) { expression.to_tokens(..) }
BlockTokens(template, block_range) ==
    LET e == try_from(template, block_range)
    IN  IF e.kind = "Err" THEN <<>> ELSE to_tokens(template, e)

\* The tokens of the classified block are generated, as create_code does for
\* each block: none for Err(()).
ToTokens ==
    /\ pc = "done"
    /\ outcome' = [kind |-> "Tokens", expression |-> outcome,
                   tokens |-> IF outcome.kind = "Err" THEN <<>>
                              ELSE to_tokens(input, outcome)]
    /\ pc' = "returned"
    /\ UNCHANGED <<rust_string, last_index, open_nested_code_blocks, code_blocks,
                   escaped_braces,
                   TEMPLATE_PATH, item, erroneous_character_position,
                   input, iter, open_delimiters, parse_state,
                   code_block_fragment_ranges, template_fragment_ranges,
                   overflow_checks>>

NextClassify == TryFrom \/ ToTokens

SpecClassify == InitClassify /\ [][NextClassify]_vars

RECURSIVE ZipTokens(_, _, _, _)
\* The loop over zip(fragments, blocks).skip(1), from the i-th pair on.
ZipTokens(template, frags, blocks, i) ==
    IF i > Len(frags) \/ i > Len(blocks) THEN <<>>
    ELSE <<WriteStr(Text(template, frags[i]))>>
             \o BlockTokens(template, blocks[i])
             \o ZipTokens(template, frags, blocks, i + 1)

RECURSIVE SumLen(_)
\* The fold over fragment.len().
SumLen(frags) ==
    IF frags = <<>> THEN 0
    ELSE (IF Head(frags).start < Head(frags).end
          THEN Head(frags).end - Head(frags).start ELSE 0) + SumLen(Tail(frags))

CodeOk(size, tokens) == [kind |-> "Code", size |-> size, tokens |-> tokens]

\* core::mem::size_of::<i64>()
SizeOfI64 == 8

\* create_code, after parse_template returned Ok.
create_code(template, blocks, frags) ==
    CodeOk(SumLen(frags) + Len(blocks) * SizeOfI64 * 2,
           <<WriteStr(Text(template, Head(frags)))>>
               \o (IF blocks # <<>> THEN BlockTokens(template, Head(blocks)) ELSE <<>>)
               \o ZipTokens(template, frags, blocks, 2)
               \o <<WriteStr(Text(template, Last(frags)))>>)

\* The bound on the documents that code is generated for, in pieces.
MaxCodePieces == 4

CodeDocuments ==
    Concats({<<c>> : c \in {Open, Close, Space, Semi, Colon, Other}}
                \cup {<<Open, Close>>, <<Open, Space, Close>>, <<Open, Other, Close>>},
            MaxCodePieces)

\* create_code(template) is called: it calls parse_template first.
InitCode ==
    /\ input \in CodeDocuments
    /\ overflow_checks = TRUE
    /\ pc = "parse_template"
    /\ TEMPLATE_PATH = <<"a.html">>
    /\ Idle

\* parse_template has returned: its error or panic is create_code's, and on
\* Ok the code is generated.
CreateCode ==
    /\ pc = "done"
    /\ outcome' = IF outcome = TemplateOk
                  THEN create_code(input, code_block_fragment_ranges,
                                   template_fragment_ranges)
                  ELSE outcome
    /\ pc' = "returned"
    /\ UNCHANGED <<rust_string, last_index, open_nested_code_blocks, code_blocks,
                   escaped_braces,
                   TEMPLATE_PATH, item, erroneous_character_position,
                   input, iter, open_delimiters, parse_state,
                   code_block_fragment_ranges, template_fragment_ranges,
                   overflow_checks>>

NextCode == TemplateOther \/ TemplateOpen \/ TemplateFinish \/ CreateCode

SpecCode == InitCode /\ [][NextCode]_vars

---------------------------------------------------------------------------
(* derive_remplate of lib.rs: the runs of the derive macro in one process, *)
(* one after the other.  TEMPLATE_PATH is a static and outlives a run.     *)

STATE_ALREADY_SET_MESSAGE == "Internal state should be set only once"

\* What a run of derive_remplate ends with.
PathError(path) == [kind |-> "compile_error", message |-> "canonicalize_path", path |-> path]
ReadError(path) == [kind |-> "compile_error", message |-> "Unable to read template", path |-> path]
ExpectPanic(message) == [kind |-> "Panic", message |-> message, path |-> ""]
Expansion(path, size, tokens) ==
    [kind |-> "Expansion", include_bytes |-> path, size |-> size, tokens |-> tokens]

\* The derive inputs: two template paths, each of which may or may not
\* canonicalize and be readable.
Items ==
    {Item(path, c, r) : path \in {"a.html", "b.html"}, c \in BOOLEAN, r \in BOOLEAN}

\* The contents of the template files: text, a block with a value, a block
\* whose value has a format spec and no expression.  Each of them parses or
\* makes parse_template panic; none gives a parse error.
Templates ==
    {<<Other>>, <<Other, Open, Other, Close, Other>>,
     <<Other, Open, Colon, Other, Close, Other>>}

\* The process starts: no derive has run.
InitDerive ==
    /\ input = <<>>
    /\ overflow_checks = TRUE
    /\ pc = "idle"
    /\ TEMPLATE_PATH = <<>>
    /\ Idle

\* derive_remplate(item) is called, and parses its input.
DeriveRemplate ==
    /\ pc = "idle"
    /\ item' \in Items
    /\ outcome' = Running
    /\ pc' = "canonicalize_path"
    /\ UNCHANGED <<rust_string, last_index, open_nested_code_blocks, code_blocks,
                   escaped_braces,
                   TEMPLATE_PATH, erroneous_character_position,
                   input, iter, open_delimiters, parse_state,
                   code_block_fragment_ranges, template_fragment_ranges,
                   overflow_checks>>

\* match canonicalize_path(template_path): on Ok the path is stored with
\* TEMPLATE_PATH.set(path).expect(..), on Err the run returns the error.
Canonicalize ==
    /\ pc = "canonicalize_path"
    /\ IF item.canonicalizes
       THEN IF TEMPLATE_PATH = <<>>
            THEN /\ TEMPLATE_PATH' = <<item.path>>
                 /\ pc' = "read_to_string"
                 /\ UNCHANGED outcome
            ELSE /\ outcome' = ExpectPanic(STATE_ALREADY_SET_MESSAGE)
                 /\ pc' = "idle"
                 /\ UNCHANGED TEMPLATE_PATH
       ELSE /\ outcome' = PathError(item.path)
            /\ pc' = "idle"
            /\ UNCHANGED TEMPLATE_PATH
    /\ UNCHANGED <<rust_string, last_index, open_nested_code_blocks, code_blocks,
                   escaped_braces,
                   item, erroneous_character_position,
                   input, iter, open_delimiters, parse_state,
                   code_block_fragment_ranges, template_fragment_ranges,
                   overflow_checks>>

\* match std::fs::read_to_string(canonicalized_path): on Ok handle_template
\* is called on the content, which calls create_code and parse_template.
ReadToString ==
    /\ pc = "read_to_string"
    /\ IF item.readable
       THEN /\ input' \in Templates
            /\ pc' = "parse_template"
            /\ iter' = 0
            /\ open_delimiters' = 0
            /\ parse_state' = StateNone
            /\ code_block_fragment_ranges' = <<>>
            /\ template_fragment_ranges' = <<>>
            /\ outcome' = Running
       ELSE /\ outcome' = ReadError(Head(TEMPLATE_PATH))
            /\ pc' = "idle"
            /\ UNCHANGED <<input, iter, open_delimiters, parse_state,
                           code_block_fragment_ranges, template_fragment_ranges>>
    /\ UNCHANGED <<rust_string, last_index, open_nested_code_blocks, code_blocks,
                   escaped_braces,
                   TEMPLATE_PATH, item, erroneous_character_position,
                   overflow_checks>>

\* handle_template returned Ok: the run returns the impl blocks.
Expand ==
    /\ pc = "returned"
    /\ outcome.kind = "Code"
    /\ outcome' = Expansion(Head(TEMPLATE_PATH), outcome.size, outcome.tokens)
    /\ pc' = "idle"
    /\ UNCHANGED <<rust_string, last_index, open_nested_code_blocks, code_blocks,
                   escaped_braces,
                   TEMPLATE_PATH, item, erroneous_character_position,
                   input, iter, open_delimiters, parse_state,
                   code_block_fragment_ranges, template_fragment_ranges,
                   overflow_checks>>

\* handle_template panicked (in parse_template): the run ends with the panic.
Unwind ==
    /\ pc = "returned"
    /\ outcome.kind = "Panic"
    /\ pc' = "idle"
    /\ UNCHANGED <<rust_string, last_index, open_nested_code_blocks, code_blocks,
                   escaped_braces, outcome,
                   TEMPLATE_PATH, item, erroneous_character_position,
                   input, iter, open_delimiters, parse_state,
                   code_block_fragment_ranges, template_fragment_ranges,
                   overflow_checks>>

NextDerive ==
    \/ DeriveRemplate
    \/ Canonicalize
    \/ ReadToString
    \/ TemplateOther
    \/ TemplateOpen
    \/ TemplateFinish
    \/ CreateCode
    \/ Expand
    \/ Unwind

SpecDerive == InitDerive /\ [][NextDerive]_vars

---------------------------------------------------------------------------
(* The earlier scanner, parse_code_blocks of src/lib.rs.  It indexes the   *)
(* document by byte offsets: input.get(i..i + 1) is None at the end of the *)
(* document and on a character of more than one byte.                      *)

\* input.get(i..i + 1): the one-byte character at the byte offset i, or
\* nothing.
Get(s, i) ==
    IF i < ByteLen(s) /\ IsCharBoundary(s, i) /\ IsCharBoundary(s, i + 1)
    THEN <<s[CharAt(s, i) + 1]>>
    ELSE <<>>

\* input.get(from..).and_then(|substr| substr.find('{')): the offsets found.
FindOpen(s, from) == {b \in from..(ByteLen(s) - 1) : Get(s, b) = <<Open>>}

CodeBlockOf(start, end) == [start |-> start, end |-> end]
ParseResult(blocks) == [kind |-> "Ok", code_blocks |-> blocks, position |-> 0]
MatchError(position) == [kind |-> "MatchError", code_blocks |-> <<>>, position |-> position]

\* The fields of ParseState that one pass of the inner loop changes.
ParseState(rs, li, nested, blocks, escaped) ==
    [rust_string |-> rs, last_index |-> li, open_nested_code_blocks |-> nested,
     code_blocks |-> blocks, escaped_braces |-> escaped]

\* The arm Some("{") that records the offset of the second brace of a doubled
\* opener.
OpenArmRecordsSecondBrace(ps, matching_start, index) ==
    IF index = matching_start
    THEN [ps EXCEPT !.escaped_braces = Append(@, index),
                    !.last_index = Matched(index + 1)]
    ELSE IF ps.rust_string.tag = "None"
         THEN [ps EXCEPT !.open_nested_code_blocks = @ + 1]
         ELSE ps

\* The arm Some("{").
OpenArm(ps, matching_start, index) ==
    IF index = matching_start
    THEN [ps EXCEPT !.escaped_braces = Append(@, index - 1),
                    !.last_index = Matched(index + 1)]
    ELSE IF ps.rust_string.tag = "None"
         THEN [ps EXCEPT !.open_nested_code_blocks = @ + 1]
         ELSE ps

\* The arm Some("r").
MarkerArm(ps, index) ==
    IF ps.rust_string.tag \in {"None", "MatchingFirst"}
    THEN [ps EXCEPT !.rust_string = MatchingFirst(StringMatch(index, 0))]
    ELSE [ps EXCEPT !.rust_string = MatchingSecondSome(@.first, StringMatch(index, 0))]

\* The arm Some("#").
FenceArm(ps) ==
    LET st == ps.rust_string
    IN  CASE st.tag = "MatchingFirst" ->
               [ps EXCEPT !.rust_string =
                    MatchingFirst(StringMatch(st.first.position, st.first.length + 1))]
          [] st.tag = "MatchingSecond" /\ st.has_second
                /\ st.first.length = st.second.length + 1 ->
               [ps EXCEPT !.rust_string = StateNone]
          [] st.tag = "MatchingSecond" /\ st.has_second
                /\ st.first.length # st.second.length + 1 ->
               [ps EXCEPT !.rust_string =
                    MatchingSecondSome(st.first,
                        StringMatch(st.second.position, st.second.length + 1))]
          [] OTHER -> ps

\* The arm Some("\"").
QuoteArm(ps, index) ==
    LET st == ps.rust_string
    IN  CASE st.tag = "MatchingFirst" ->
               [ps EXCEPT !.rust_string =
                    MatchingSecondNone(StringMatch(st.first.position, st.first.length))]
          [] st.tag = "MatchingSecond" /\ st.first.length = 0 /\ ~st.has_second ->
               [ps EXCEPT !.rust_string = StateNone]
          [] st.tag = "MatchingSecond"
                /\ ~(st.first.length = 0 /\ ~st.has_second) ->
               [ps EXCEPT !.rust_string =
                    MatchingSecondSome(st.first, StringMatch(index, 0))]
          [] OTHER ->
               [ps EXCEPT !.rust_string = MatchingSecondNone(StringMatch(index, 0))]

\* The arm Some("}") if parse_state.rust_string.is_none().
CloseArm(ps, matching_start, index) ==
    IF ps.open_nested_code_blocks > 0
    THEN [ps EXCEPT !.open_nested_code_blocks = @ - 1]
    ELSE [ps EXCEPT !.last_index = Matched(index + 1),
                    !.code_blocks = Append(@, CodeBlockOf(matching_start, index))]

\* The arm _.
OtherArm(ps) ==
    LET st == ps.rust_string
    IN  CASE st.tag = "MatchingFirst" -> [ps EXCEPT !.rust_string = StateNone]
          [] st.tag = "MatchingSecond" /\ st.has_second ->
               [ps EXCEPT !.rust_string = MatchingSecondNone(st.first)]
          [] OTHER -> ps

\* The match on substr without the guard of line 251: a closing delimiter is
\* acted on inside a string literal too.
MatchArmClosesInLiteral(ps, matching_start, index, c) ==
    CASE c = Open -> OpenArm(ps, matching_start, index)
      [] c = Marker -> MarkerArm(ps, index)
      [] c = Fence -> FenceArm(ps)
      [] c = Quote -> QuoteArm(ps, index)
      [] c = Close -> CloseArm(ps, matching_start, index)
      [] OTHER -> OtherArm(ps)

\* The match on substr, for a character c.
MatchArm(ps, matching_start, index, c) ==
    CASE c = Open -> OpenArm(ps, matching_start, index)
      [] c = Marker -> MarkerArm(ps, index)
      [] c = Fence -> FenceArm(ps)
      [] c = Quote -> QuoteArm(ps, index)
      [] c = Close /\ ps.rust_string.tag = "None" -> CloseArm(ps, matching_start, index)
      [] OTHER -> OtherArm(ps)

\* The match on parse_state.last_index that ends a pass of the inner loop.
Advance(ps, index) ==
    IF ps.last_index.tag = "Matching"
    THEN [ps EXCEPT !.last_index = Matching(@.start, index + 1)]
    ELSE ps

RECURSIVE ScanBlocks(_, _)
\* The two loops of parse_code_blocks from the state ps on, and the match on
\* last_index after them.
ScanBlocks(s, ps) ==
    IF ps.last_index.tag = "Matched"
    THEN IF FindOpen(s, ps.last_index.current) = {}
         THEN ParseResult(ps.code_blocks)
         ELSE LET index == Min(FindOpen(s, ps.last_index.current))
              IN  ScanBlocks(s, [ps EXCEPT !.last_index = Matching(index + 1, index + 1)])
    ELSE IF Get(s, ps.last_index.current) = <<>>
         THEN MatchError(ps.last_index.start - 1)
         ELSE ScanBlocks(s, Advance(MatchArm(ps, ps.last_index.start,
                                             ps.last_index.current,
                                             Head(Get(s, ps.last_index.current))),
                                    ps.last_index.current))

\* parse_code_blocks(input), as a function of the document.
parse_code_blocks(s) ==
    ScanBlocks(s, ParseState(StateNone, Matched(0), 0, <<>>, <<>>))

\* The bound on the documents of the earlier scanner, in pieces.
MaxBlockPieces == 4

BlockDocuments ==
    Concats({<<c>> : c \in Alphabet} \cup {<<Open, Open>>}, MaxBlockPieces)

\* parse_code_blocks(input) is called.
InitBlocks ==
    /\ input \in BlockDocuments
    /\ overflow_checks = TRUE
    /\ pc = "parse_code_blocks"
    /\ TEMPLATE_PATH = <<>>
    /\ Idle

\* The outer loop finds the next opener and starts matching after it.
FindOpener ==
    /\ pc = "parse_code_blocks"
    /\ last_index.tag = "Matched"
    /\ FindOpen(input, last_index.current) # {}
    /\ LET index == Min(FindOpen(input, last_index.current))
       IN  last_index' = Matching(index + 1, index + 1)
    /\ UNCHANGED <<rust_string, open_nested_code_blocks, code_blocks,
                   escaped_braces, outcome, pc,
                   TEMPLATE_PATH, item, erroneous_character_position,
                   input, iter, open_delimiters, parse_state,
                   code_block_fragment_ranges, template_fragment_ranges,
                   overflow_checks>>

\* The outer loop finds no opener: Ok with the blocks matched so far.
NoOpener ==
    /\ pc = "parse_code_blocks"
    /\ last_index.tag = "Matched"
    /\ FindOpen(input, last_index.current) = {}
    /\ outcome' = ParseResult(code_blocks)
    /\ pc' = "done"
    /\ UNCHANGED <<rust_string, last_index, open_nested_code_blocks, code_blocks,
                   escaped_braces,
                   TEMPLATE_PATH, item, erroneous_character_position,
                   input, iter, open_delimiters, parse_state,
                   code_block_fragment_ranges, template_fragment_ranges,
                   overflow_checks>>

\* One pass of the inner loop on the character at last_index.current.
MatchStep ==
    /\ pc = "parse_code_blocks"
    /\ last_index.tag = "Matching"
    /\ Get(input, last_index.current) # <<>>
    /\ LET ps == Advance(MatchArm(ParseState(rust_string, last_index,
                                             open_nested_code_blocks, code_blocks,
                                             escaped_braces),
                                  last_index.start, last_index.current,
                                  Head(Get(input, last_index.current))),
                         last_index.current)
       IN  /\ rust_string' = ps.rust_string
           /\ last_index' = ps.last_index
           /\ open_nested_code_blocks' = ps.open_nested_code_blocks
           /\ code_blocks' = ps.code_blocks
           /\ escaped_braces' = ps.escaped_braces
    /\ UNCHANGED <<outcome, pc,
                   TEMPLATE_PATH, item, erroneous_character_position,
                   input, iter, open_delimiters, parse_state,
                   code_block_fragment_ranges, template_fragment_ranges,
                   overflow_checks>>

\* substr is None: both loops end while a block is being matched, and the
\* result is the error at the opener.
MatchEnd ==
    /\ pc = "parse_code_blocks"
    /\ last_index.tag = "Matching"
    /\ Get(input, last_index.current) = <<>>
    /\ outcome' = MatchError(last_index.start - 1)
    /\ pc' = "done"
    /\ UNCHANGED <<rust_string, last_index, open_nested_code_blocks, code_blocks,
                   escaped_braces,
                   TEMPLATE_PATH, item, erroneous_character_position,
                   input, iter, open_delimiters, parse_state,
                   code_block_fragment_ranges, template_fragment_ranges,
                   overflow_checks>>

NextBlocks == FindOpener \/ NoOpener \/ MatchStep \/ MatchEnd

SpecBlocks == InitBlocks /\ [][NextBlocks]_vars

---------------------------------------------------------------------------
(* The claims.                                                             *)

\* C1: a document without any opening delimiter (the empty document too)
\* parses successfully into zero code-block ranges and the single template
\* fragment 0..len(document).
C1_NoOpenerIsOneFragment ==
    (pc = "done" /\ \A i \in 0..(Len(input) - 1) : At(input, i) # Open) =>
        /\ outcome = TemplateOk
        /\ code_block_fragment_ranges = <<>>
        /\ template_fragment_ranges = <<Range(0, ByteLen(input))>>

\* C2: when the template scanner stands on an opening delimiter that another
\* opening delimiter follows, its step takes the pair as an escaped
\* delimiter: it opens no block, does not fail, and resumes after both.
C2_EscapedPairIsSkipped ==
    [][(/\ pc = "parse_template"
        /\ At(input, iter) = Open
        /\ At(input, iter + 1) = Open) =>
           (/\ pc' = "parse_template"
            /\ iter' = iter + 2
            /\ UNCHANGED <<code_block_fragment_ranges,
                           template_fragment_ranges, outcome>>)]_vars

\* C3: for an input that starts with the opener and does not go on with a
\* second one, parse_code_block returns Ok(i) exactly when i is the matching
\* closing delimiter: the first closing delimiter outside string literals
\* with as many openers as closers, outside string literals, between index
\* 1 and it.
C3_MatchingClose ==
    (pc = "done" /\ At(input, 1) # Open) =>
        LET r == RefClose(input, 1, 0)
        IN  /\ r.kind = "Closed" => outcome = BlockOk(r.at)
            /\ outcome.kind = "Ok" => r = Closed(outcome.value)

\* C4: the contents of a terminated string literal are inert: replacing a
\* brace strictly inside one by an ordinary character does not change what
\* parse_code_block returns.
C4_LiteralContentsInert ==
    (pc = "done" /\ At(input, 1) # Open) =>
        \A k \in RefContents(input, 1, 0) :
            At(input, k) \in {Open, Close} =>
                parse_code_block(Replace(input, k, Other)) = outcome

\* C5: round trip: on success the fragments and the blocks, the delimiters
\* put back, concatenate to the document.
C5_RoundTrip ==
    (pc = "done" /\ outcome = TemplateOk) =>
        /\ Len(template_fragment_ranges) = Len(code_block_fragment_ranges) + 1
        /\ Reassemble(input, template_fragment_ranges,
                      code_block_fragment_ranges) = Bytes(input)

\* C6: on success the returned ranges, in document order, have start <= end,
\* strictly increasing starts and do not overlap, and the fragment between
\* two adjacent blocks is the empty range between the closing and the
\* opening delimiter.
C6_RangesOrdered ==
    (pc = "done" /\ outcome = TemplateOk) =>
        /\ Len(template_fragment_ranges) = Len(code_block_fragment_ranges) + 1
        /\ LET R == Interleaved(template_fragment_ranges, code_block_fragment_ranges)
           IN  /\ \A i \in DOMAIN R : R[i].start <= R[i].end
               /\ \A i, j \in DOMAIN R :
                      i < j => R[i].start < R[j].start /\ R[i].end <= R[j].start
        /\ \A i \in 1..(Len(code_block_fragment_ranges) - 1) :
               LET b == code_block_fragment_ranges[i]
                   t == template_fragment_ranges[i + 1]
               IN  At(Bytes(input), b.end + 1) = Open =>
                       t = Range(b.end + 1, b.end + 1)

\* C7: a block opener without a closing delimiter at nesting level zero (and
\* without an unterminated literal) makes parse_template fail with
\* CodeBlockHasNoEnd at the offset of that opener.  Stated for the first
\* opener of the document.
C7_UnterminatedBlockPosition ==
    (/\ pc = "done"
     /\ HasOpen(input)
     /\ At(input, FirstOpen(input) + 1) # Open
     /\ RefClose(FromFirstOpen(input), 1, 0) = NoClose) =>
        outcome = CodeBlockHasNoEnd(ByteOffset(input, FirstOpen(input)))

\* C8: a literal of a block that never closes makes parse_template fail with
\* StrHasNoEnd at the document offset at which the literal starts.  Stated
\* for the first opener of the document.
C8_UnterminatedLiteralPosition ==
    (/\ pc = "done"
     /\ HasOpen(input)
     /\ At(input, FirstOpen(input) + 1) # Open
     /\ RefClose(FromFirstOpen(input), 1, 0).kind = "Unterminated") =>
        outcome = TemplateStrHasNoEnd(
                      ByteOffset(input, FirstOpen(input)
                                        + RefClose(FromFirstOpen(input), 1, 0).at))

\* C9: for an input that opens a literal at index 0 and ends before the
\* literal closes, parse_str_literal returns StrHasNoEnd with the literal's
\* start.
C9_UnterminatedLiteralIsReported ==
    (pc = "done" /\ LitOpens(input, 0) /\ LitCloses(input, 0) = {}) =>
        outcome = StrHasNoEnd(0)

\* C10: a raw literal opened with n >= 1 fence characters ends only at a
\* quote that n fence characters follow directly: Ok(0..k) means that k is
\* the index of the n-th of them, and such a close is found when there is
\* one.
C10_RawLiteralClosesOnFullFence ==
    (pc = "done" /\ LitOpens(input, 0) /\ LitFences(input, 0) >= 1) =>
        /\ outcome.kind = "Ok" =>
               /\ LitCloses(input, 0) # {}
               /\ outcome = StrOk(0, LitEnd(input, 0))
        /\ LitCloses(input, 0) # {} => outcome.kind = "Ok"

\* C11: a quote that more fence characters follow than the raw literal was
\* opened with does not terminate the literal: parse_str_literal does not
\* return the range that ends at the n-th fence character after such a quote.
C11_LongerFenceDoesNotClose ==
    (pc = "done" /\ LitOpens(input, 0) /\ LitFences(input, 0) >= 1) =>
        \A j \in (LitQuote(input, 0) + 1)..(Len(input) - 1) :
            (At(input, j) = Quote
             /\ FencesFrom(input, j + 1) > LitFences(input, 0)) =>
                outcome # StrOk(0, j + LitFences(input, 0))

\* The quotes after index 0.
LaterQuotes(s) == {j \in 1..(Len(s) - 1) : At(s, j) = Quote}

\* C12: for an input that starts with a quote and has a later quote,
\* parse_str_literal returns Ok(0..k), k the index of the first quote after
\* index 0, whatever follows it.
C12_PlainLiteralEndsAtNextQuote ==
    (pc = "done" /\ At(input, 0) = Quote /\ LaterQuotes(input) # {}) =>
        outcome = StrOk(0, Min(LaterQuotes(input)))

\* C12 happens: a plain literal with a body, text and a further quote after
\* its closing quote, has been parsed.
C12_Witness ==
    /\ pc = "done"
    /\ At(input, 0) = Quote
    /\ Cardinality(LaterQuotes(input)) >= 2
    /\ Min(LaterQuotes(input)) >= 2
    /\ Min(LaterQuotes(input)) + 1 \notin LaterQuotes(input)
    /\ outcome = StrOk(0, Min(LaterQuotes(input)))

\* C14: parse_str_literal returns NoStrFound when the input's first
\* character is neither the marker nor a quote, and when the marker and its
\* fence characters are followed by a character that is neither a fence
\* character nor a quote, whatever follows.
C14_NoLiteralAtStart ==
    (/\ pc = "done"
     /\ \/ Len(input) > 0 /\ At(input, 0) \notin {Marker, Quote}
        \/ /\ At(input, 0) = Marker
           /\ LitQuote(input, 0) < Len(input)
           /\ At(input, LitQuote(input, 0)) # Quote) =>
        outcome = NoStrFound

\* The marker, fence characters and a quote occur somewhere in s: the opening
\* of a raw literal.
HasRawOpener(s) == \E p \in 0..(Len(s) - 1) : At(s, p) = Marker /\ LitOpens(s, p)

\* C13: in a block whose literals are all plain, every literal, the empty
\* one and one that directly follows another included, is consumed on its
\* own from its quote to the next quote: parse_code_block returns the real
\* closing delimiter, and reports an unterminated literal only where a
\* literal never closes.
C13_AdjacentPlainLiterals ==
    (pc = "done" /\ At(input, 1) # Open /\ ~HasRawOpener(input)) =>
        LET r == RefClose(input, 1, 0)
        IN  /\ r.kind = "Closed" <=> outcome = BlockOk(r.at)
            /\ r.kind = "Unterminated" <=> outcome = BlockStrHasNoEnd(r.at)
            /\ r.kind = "NoClose" <=> outcome = BlockHasNoEnd

\* C13 happens: the block of two adjacent plain literals has been matched at
\* its closing delimiter.
C13_Witness ==
    /\ pc = "done"
    /\ input \in {<<Open, Quote, Other, Quote, Quote, Other, Quote, Close>>,
                  <<Open, Quote, Quote, Quote, Quote, Close>>}
    /\ outcome = BlockOk(Len(input) - 1)

\* The endpoints of the returned ranges.
Endpoints ==
    {r.start : r \in {code_block_fragment_ranges[i] : i \in DOMAIN code_block_fragment_ranges}
                     \cup {template_fragment_ranges[i] : i \in DOMAIN template_fragment_ranges}}
    \cup {r.end : r \in {code_block_fragment_ranges[i] : i \in DOMAIN code_block_fragment_ranges}
                        \cup {template_fragment_ranges[i] : i \in DOMAIN template_fragment_ranges}}

\* C15: the scanner never uses a character count where a byte offset is
\* required: the index at which parse_template slices the document for an
\* opener is the byte offset of that opener, and every range endpoint and
\* error position it returns is a byte offset on a character boundary.
C15_OffsetsOnCharBoundaries ==
    /\ (pc = "parse_template" /\ At(input, iter) = Open) =>
           ByteOffset(input, iter) = iter
    /\ (pc = "done" /\ outcome = TemplateOk) =>
           \A b \in Endpoints : IsCharBoundary(input, b)
    /\ (pc = "done" /\ outcome.kind \in {"CodeBlockHasNoEnd", "StrHasNoEnd"}) =>
           IsCharBoundary(input, outcome.position)

\* The index i of the block's interior lies inside a quoted literal; every
\* literal of the interior is closed.
InLiteral(b, i) == Cardinality({j \in 0..(i - 1) : b[j + 1] = Quote}) % 2 = 1
WellQuoted(b) == Cardinality(Positions(b, Quote)) % 2 = 0

\* The occurrences of c in the interior outside string literals.
TopLevel(b, c) == {i \in Positions(b, c) : ~InLiteral(b, i)}

\* The separator at which the classifier split the block (an index of the
\* interior), the block starting at offset 1 of the template.
SplitAt == outcome.code_block_range.end - 2

\* The range of the value segment the classifier passed to Formattable::from.
ValueRange ==
    IF outcome.kind = "Formattable" THEN Range(1, Len(input) - 1)
    ELSE Range(outcome.code_block_range.end, Len(input) - 1)

\* C16: the classifier splits a block at the last statement separator that
\* is outside string literals, and never at one inside a literal.
C16_SplitAtTopLevelSeparator ==
    (pc = "done" /\ WellQuoted(Interior)) =>
        IF TopLevel(Interior, Semi) # {}
        THEN /\ outcome.kind \in {"CodeBlock", "CodeBlockWithFormattable"}
             /\ SplitAt = Max(TopLevel(Interior, Semi))
        ELSE outcome.kind \in {"Formattable", "Err"}

\* The text after the last separator of the interior.
AfterLastSemi ==
    SubSeq(Interior, Max(Positions(Interior, Semi)) + 2, Len(Interior))

\* C17: a block with a separator after the last of which only whitespace
\* follows is a statement-only result whose range runs from the block start
\* up to and including that separator.
C17_StatementOnly ==
    (pc = "done" /\ Positions(Interior, Semi) # {} /\ TrimIsEmpty(AfterLastSemi)) =>
        outcome = CodeBlock(Range(1, Max(Positions(Interior, Semi)) + 2))

\* C17 happens: a block with two separators and a blank after the last one
\* has been classified.
C17_Witness ==
    /\ pc = "done"
    /\ Cardinality(Positions(Interior, Semi)) >= 2
    /\ AfterLastSemi # <<>>
    /\ TrimIsEmpty(AfterLastSemi)
    /\ outcome.kind = "CodeBlock"

RECURSIVE TrimStart(_)
TrimStart(b) ==
    IF b # <<>> /\ Head(b) \in {Space, Newline} THEN TrimStart(Tail(b)) ELSE b

C20_SplitAtTopLevelColon ==
    (pc = "done" /\ WellQuoted(Interior)
       /\ outcome.kind \in {"CodeBlockWithFormattable", "Formattable"}) =>
        LET f == outcome.formattable
            colons == {i \in TopLevel(Interior, Colon) : i + 1 >= ValueRange.start}
        IN  IF colons # {}
            THEN /\ f.has_formatting
                 /\ f.expression_range = Range(ValueRange.start, Min(colons) + 1)
                 /\ f.formatting_range = Range(Min(colons) + 1, ValueRange.end)
            ELSE /\ ~f.has_formatting
                 /\ f.expression_range = ValueRange

\* The block with range r is empty or holds whitespace only.
BlankBlock(r) == TrimIsEmpty(Text(input, r))

RECURSIVE Emitted(_)
\* What is to be generated from the i-th fragment on: each fragment, and
\* after it the tokens of its block unless that block is blank.
Emitted(i) ==
    IF i > Len(template_fragment_ranges) THEN <<>>
    ELSE <<WriteStr(Text(input, template_fragment_ranges[i]))>>
             \o (IF i > Len(code_block_fragment_ranges)
                    \/ BlankBlock(code_block_fragment_ranges[i])
                 THEN <<>>
                 ELSE to_tokens(input, try_from(input, code_block_fragment_ranges[i])))
             \o Emitted(i + 1)

\* C19: a block whose interior is empty or whitespace-only is classified as
\* empty, and code generation emits nothing for it, without failing, while
\* every literal fragment is still emitted, in order.
C19_BlankBlockEmitsNothing ==
    /\ (pc = "returned"
           /\ code_block_fragment_ranges # <<>>
           /\ Len(template_fragment_ranges) = Len(code_block_fragment_ranges) + 1) =>
           /\ outcome.kind = "Code"
           /\ outcome.tokens = Emitted(1)
    /\ pc = "returned" =>
           \A i \in DOMAIN code_block_fragment_ranges :
               BlankBlock(code_block_fragment_ranges[i]) =>
                   try_from(input, code_block_fragment_ranges[i]) = ErrEmpty

\* C19 happens: code has been generated for `x{ }x{x}`, a whitespace-only
\* block between two fragments of text and a block that has a value.
C19_Witness ==
    /\ pc = "returned"
    /\ input = <<Other, Open, Space, Close, Other, Open, Other, Close>>
    /\ outcome.kind = "Code"
    /\ outcome.tokens = <<WriteStr(<<Other>>), WriteStr(<<Other>>),
                          WriteFmt(<<"{", "}">>, <<Other>>), WriteStr(<<>>)>>

\* C23: parse_template ends, for every document, with a complete ParseResult
\* or with one TemplateParseError, never with an abnormal abort.
C23_ResultOrError ==
    pc = "done" => outcome.kind \in {"Ok", "CodeBlockHasNoEnd", "StrHasNoEnd"}

\* C26: when parse_str_literal returns Ok(range), range.start = 0 and the
\* character at index 0 is the marker or the opening quote.
C26_LiteralStartsAtZero ==
    (pc = "done" /\ outcome.kind = "Ok") =>
        /\ outcome.start = 0
        /\ At(input, 0) \in {Marker, Quote}

\* C27: after a candidate closing quote of a raw literal, a character that is
\* not a fence character (the marker included) discards the candidate and
\* the fence characters counted for it.
C27_NonFenceDiscardsCandidate ==
    [][(/\ pc = "parse_str_literal"
        /\ iter < Len(input)
        /\ parse_state.tag = "MatchingSecond"
        /\ parse_state.has_second
        /\ parse_state.first.length >= 1
        /\ At(input, iter) \notin {Fence, Quote}) =>
           ~parse_state'.has_second]_vars

\* C28: the block matcher and the literal scanner advance monotonically: when
\* parse_code_block goes on after a call of parse_str_literal, it goes on
\* behind the characters that call moved past, so that no character is
\* inspected again.
C28_ScannersAdvance ==
    [][(/\ pc = "parse_code_block"
        /\ pc' = "parse_code_block"
        /\ At(input, iter) \in {Marker, Quote}) =>
           iter' >= iter + StrPassed(SliceFrom(input, iter), 0, StateNone)]_vars

\* The characters of the document before and after the erroneous text.
TextBefore == SubSeq(input, 1, CharAt(input, erroneous_character_position.start))
TextAfter ==
    SubSeq(input, CharAt(input, erroneous_character_position.end) + 1, Len(input))

\* k = min(N, characters before the error, characters after it).
WindowSize ==
    Min({TEMPLATE_POINTER_PADDING, Len(TextBefore), Len(TextAfter)})

IsSuffix(a, b) == Len(a) <= Len(b) /\ SubSeq(b, Len(b) - Len(a) + 1, Len(b)) = a
IsPrefix(a, b) == Len(a) <= Len(b) /\ SubSeq(b, 1, Len(a)) = a

LastOf(t, j) == SubSeq(t, Len(t) - j + 1, Len(t))
FirstOf(t, j) == SubSeq(t, 1, j)

\* The number of characters of the document that the message shows before
\* and after the erroneous text: a character counts when any part of its
\* escaped form is shown.
ShownBefore ==
    CHOOSE j \in 0..Len(TextBefore) :
        /\ IsSuffix(outcome.final_left_slice, DebugBody(LastOf(TextBefore, j)))
        /\ \A i \in 0..(j - 1) :
               ~IsSuffix(outcome.final_left_slice, DebugBody(LastOf(TextBefore, i)))
ShownAfter ==
    CHOOSE j \in 0..Len(TextAfter) :
        /\ IsPrefix(outcome.final_right_slice, DebugBody(FirstOf(TextAfter, j)))
        /\ \A i \in 0..(j - 1) :
               ~IsPrefix(outcome.final_right_slice, DebugBody(FirstOf(TextAfter, i)))

\* C24: the context window of abortion_error shows the same number k of
\* characters before and after the erroneous text, k the smallest of
\* TEMPLATE_POINTER_PADDING and the characters available on each side.
C24_SymmetricWindow ==
    (pc = "done" /\ outcome.kind = "compile_error" /\ outcome.error_kind # "panic") =>
        /\ ShownBefore = WindowSize
        /\ ShownAfter = WindowSize

\* The number of characters of a String.
CharCount(b) == Cardinality({i \in 1..Len(b) : b[i] # "A9"})

\* C25: the caret of the pointer line is in the column of the first character
\* of the erroneous text on the quoted line above it, which starts with a
\* quote and the left context.
C25_CaretUnderError ==
    (pc = "done" /\ outcome.kind = "compile_error" /\ outcome.error_kind # "panic") =>
        outcome.pointer = 1 + CharCount(outcome.final_left_slice)

\* The Formattable that to_tokens was called on, and the statement it
\* generated.
Classified == outcome.expression.formattable
Generated == Last(outcome.tokens)

\* C21: a value with a format spec whose expression is empty or blank gives
\* a MissingValue error at the range of the format spec, and the expression
\* is not passed on as code; a value whose expression is not blank gives no
\* MissingValue error, and its expression is the code.
C21_MissingValue ==
    (pc = "returned"
       /\ outcome.expression.kind \in {"CodeBlockWithFormattable", "Formattable"}) =>
        /\ Generated.op = "write_fmt"
        /\ IF Classified.has_formatting
              /\ TrimIsEmpty(Text(input, Classified.expression_range))
           THEN /\ Generated.error.kind = "compile_error"
                /\ Generated.error.error_kind = "MissingValue"
                /\ Generated.error.position = Classified.formatting_range
                /\ Generated.text = <<"compile_error!">>
           ELSE /\ Generated.error = NoMessage
                /\ Generated.text = Text(input, Classified.expression_range)
        /\ \A i \in DOMAIN outcome.tokens :
               outcome.tokens[i].error.error_kind = "MissingValue" => i = Len(outcome.tokens)

\* C21 happens: the tokens of the block `{:x}`, the value `:x` with nothing
\* before the format spec, are the MissingValue error at the range 1..3.
C21_Witness ==
    /\ pc = "returned"
    /\ Interior = <<Colon, Other>>
    /\ Generated.error.error_kind = "MissingValue"
    /\ Generated.error.position = Range(1, 3)

\* The document has no closing delimiter and its openers come in adjacent
\* pairs.
RECURSIVE OnlyDoubledOpeners(_)
OnlyDoubledOpeners(s) ==
    IF s = <<>> THEN TRUE
    ELSE IF Head(s) = Close THEN FALSE
    ELSE IF Head(s) = Open
         THEN Len(s) >= 2 /\ s[2] = Open /\ OnlyDoubledOpeners(SubSeq(s, 3, Len(s)))
    ELSE OnlyDoubledOpeners(Tail(s))

\* The byte offsets of the first braces of those pairs, from the character
\* with index i on.
RECURSIVE DoubledOffsets(_, _)
DoubledOffsets(s, i) ==
    IF i >= Len(s) THEN <<>>
    ELSE IF s[i + 1] = Open
         THEN <<ByteOffset(s, i)>> \o DoubledOffsets(s, i + 2)
    ELSE DoubledOffsets(s, i + 1)

\* C29: the earlier scanner records a doubled opener in escaped_braces at
\* the offset of its first brace, opens no block for it and goes on right
\* after its second brace; a document whose only braces are doubled openers
\* gives Ok with no code block.
C29_DoubledOpenerIsEscaped ==
    /\ [][(pc = "parse_code_blocks" /\ last_index.tag = "Matching"
             /\ last_index.current = last_index.start
             /\ Get(input, last_index.current) = <<Open>>) =>
              /\ last_index' = Matched(last_index.current + 1)
              /\ escaped_braces' = Append(escaped_braces, last_index.current - 1)
              /\ code_blocks' = code_blocks]_vars
    /\ [](pc = "done" /\ OnlyDoubledOpeners(input) =>
              /\ outcome = ParseResult(<<>>)
              /\ escaped_braces = DoubledOffsets(input, 0))

\* C29 happens: `é{{{{x` has been scanned, its two doubled openers are
\* recorded at the byte offsets 2 and 4, and the result is Ok without blocks.
C29_Witness ==
    /\ pc = "done"
    /\ input = <<Wide, Open, Open, Open, Open, Other>>
    /\ escaped_braces = <<2, 4>>
    /\ outcome = ParseResult(<<>>)

\* The document has no quote, so no string literal, and only characters of
\* one byte.
NoLiteral == \A i \in 1..Len(input) : input[i] \notin {Quote, Wide}

\* C30: every closing delimiter outside a string literal is acted on (it
\* lowers the nesting counter or closes the block), and every opening
\* delimiter outside a string literal after the opener raises the counter,
\* whatever character precedes it.
C30_EveryBraceIsActedOn ==
    [][(pc = "parse_code_blocks" /\ last_index.tag = "Matching" /\ NoLiteral) =>
         /\ Get(input, last_index.current) = <<Close>> =>
                IF open_nested_code_blocks > 0
                THEN open_nested_code_blocks' = open_nested_code_blocks - 1
                ELSE /\ last_index' = Matched(last_index.current + 1)
                     /\ code_blocks'
                            = Append(code_blocks,
                                     CodeBlockOf(last_index.start, last_index.current))
         /\ (Get(input, last_index.current) = <<Open>>
               /\ last_index.current # last_index.start) =>
                open_nested_code_blocks' = open_nested_code_blocks + 1]_vars

\* C22: no state is shared across the runs of derive_remplate in a process:
\* no run fails because an earlier run has set TEMPLATE_PATH, and a run whose
\* path canonicalizes goes on with its own path.
C22_NoSharedState ==
    /\ pc = "idle" => outcome # ExpectPanic(STATE_ALREADY_SET_MESSAGE)
    /\ pc = "read_to_string" => TEMPLATE_PATH = <<item.path>>

\* C32: whenever parse_template succeeds there is one template fragment more
\* than there are code blocks.
C32_OneMoreFragment ==
    (pc = "done" /\ outcome = TemplateOk) =>
        Len(template_fragment_ranges) = Len(code_block_fragment_ranges) + 1

\* C32 happens: parse_template has succeeded on a document with two blocks.
C32_Witness ==
    /\ pc = "done"
    /\ outcome = TemplateOk
    /\ Len(code_block_fragment_ranges) = 2
    /\ Len(template_fragment_ranges) = 3

\* The block that was classified, and where its value ends: at the end of
\* the format spec, or of the expression where there is none.
Block == code_block_fragment_ranges[1]
ValueEnd(f) == IF f.has_formatting THEN f.formatting_range.end ELSE f.expression_range.end

\* C34: the parts the classifier produces partition the block: the statement
\* starts where the block starts and ends where the value starts, the value
\* ends where the block ends; the expression starts where the value starts
\* and ends where the format spec starts, the format spec starts with `:` and
\* ends where the value ends.
C34_PartsPartitionBlock ==
    pc = "done" =>
        /\ outcome.kind = "CodeBlockWithFormattable" =>
               /\ outcome.code_block_range.start = Block.start
               /\ outcome.code_block_range.end = outcome.formattable.expression_range.start
               /\ ValueEnd(outcome.formattable) = Block.end
        /\ outcome.kind = "Formattable" =>
               /\ outcome.formattable.expression_range.start = Block.start
               /\ ValueEnd(outcome.formattable) = Block.end
        /\ (outcome.kind \in {"CodeBlockWithFormattable", "Formattable"}
              /\ outcome.formattable.has_formatting) =>
               /\ outcome.formattable.expression_range.end
                      = outcome.formattable.formatting_range.start
               /\ outcome.formattable.expression_range.start
                      <= outcome.formattable.expression_range.end
               /\ outcome.formattable.formatting_range.start
                      < outcome.formattable.formatting_range.end
               /\ At(input, outcome.formattable.formatting_range.start) = Colon

\* C34 happens: the block `{x;x:x}` has been classified into the statement
\* 1..3, the expression 3..4 and the format spec 4..6.
C34_Witness ==
    /\ pc = "done"
    /\ input = <<Open, Other, Semi, Other, Colon, Other, Close>>
    /\ outcome = CodeBlockWithFormattable(
                     Range(1, 3), Formattable(Range(3, 4), TRUE, Range(4, 6)))

\* C36: between blocks (last_index is Matched: at the start, after a block
\* was closed, after an escaped brace was recorded) the scan state of
\* parse_code_blocks is clean: rust_string is None and the nesting counter
\* is 0.
C36_CleanBetweenBlocks ==
    last_index.tag = "Matched" =>
        /\ rust_string = StateNone
        /\ open_nested_code_blocks = 0

\* C36 happens: the block `{""}`, with a string literal in it, has been
\* closed and the scanner is between blocks.
C36_Witness ==
    /\ pc = "parse_code_blocks"
    /\ input = <<Open, Quote, Quote, Close>>
    /\ last_index = Matched(4)
    /\ code_blocks = <<CodeBlockOf(1, 3)>>

\* C35: every error position parse_template returns lies inside the
\* document, and the one-character range TemplateParseError::into builds
\* from it is a valid slice of the document: the `{` for CodeBlockHasNoEnd,
\* the opening quote or the raw marker of the literal for StrHasNoEnd.
C35_ErrorPositionInDocument ==
    (pc = "done" /\ outcome.kind \in {"CodeBlockHasNoEnd", "StrHasNoEnd"}) =>
        LET erroneous == TemplateSlice(input, into(outcome.position).start,
                                       into(outcome.position).end)
        IN  /\ outcome.position < ByteLen(input)
            /\ outcome.kind = "CodeBlockHasNoEnd" => erroneous = <<Open>>
            /\ outcome.kind = "StrHasNoEnd" => erroneous \in {<<Quote>>, <<Marker>>}

\* The document has a parse result: it has no opener, so it is one literal
\* fragment and no block, or parse_template succeeded on it.
HasParseResult ==
    \/ \A i \in 1..Len(input) : input[i] # Open
    \/ (code_block_fragment_ranges # <<>>
          /\ Len(template_fragment_ranges) = Len(code_block_fragment_ranges) + 1)

RECURSIVE InDocumentOrder(_)
\* t(i), b(i), t(i + 1), .., tn: a write for each fragment from the i-th on,
\* each but the last followed by the tokens of its block.
InDocumentOrder(i) ==
    IF i > Len(template_fragment_ranges) THEN <<>>
    ELSE <<WriteStr(Text(input, template_fragment_ranges[i]))>>
             \o (IF i > Len(code_block_fragment_ranges) THEN <<>>
                 ELSE BlockTokens(input, code_block_fragment_ranges[i]))
             \o InDocumentOrder(i + 1)

\* C33: for every parse result with n >= 0 blocks and n + 1 fragments,
\* create_code emits a write for each fragment once and the code of each
\* block once, in document order t0, b0, t1, b1, .., tn; for a document
\* without a block that is the one write of the whole document.
C33_EachFragmentOnce ==
    (pc = "returned" /\ HasParseResult) =>
        /\ outcome.kind = "Code"
        /\ outcome.tokens
               = IF code_block_fragment_ranges = <<>> THEN <<WriteStr(input)>>
                 ELSE InDocumentOrder(1)

\* The document has an opener and no doubled opener.
OpenersNotDoubled ==
    /\ \E i \in 1..Len(input) : input[i] = Open
    /\ \A i \in 1..(Len(input) - 1) : ~(input[i] = Open /\ input[i + 1] = Open)

\* C31: on a document of one-byte characters with an opener and no doubled
\* opener, parse_code_blocks and parse_template both fail or both succeed,
\* and on success the blocks they return have the same start and end
\* offsets.
C31_ScannersAgree ==
    (pc = "done" /\ OpenersNotDoubled) =>
        /\ (parse_code_blocks(input).kind = "Ok") <=> (outcome = TemplateOk)
        /\ outcome = TemplateOk =>
               parse_code_blocks(input).code_blocks = code_block_fragment_ranges

===========================================================================
